---- MODULE Spec2Model ----
(***************************************************************************)
(* A model of metaagent.py: the three lifecycle entry points on_create,    *)
(* on_receive and on_destroy of the Python Meta Action Agent script, the   *)
(* helper functions nested in on_receive, and the calls on_receive makes   *)
(* into dowhy.gcm, matplotlib and the clock.                               *)
(*                                                                         *)
(* Representation.                                                         *)
(*  - A Python dict is a sequence of <<key, value>> pairs with distinct    *)
(*    keys, in insertion order (what dict iteration yields).               *)
(*  - A float is an exact fraction [num, den] in lowest terms; the float   *)
(*    NaN is the fraction 0/0.  Rounding error of binary floating point    *)
(*    is not modelled: sums are exact where the code's are within 1 ulp.   *)
(*  - A scalar that is printed or serialised (a string, an int, a float    *)
(*    rounded to two decimals, None) is a record [kind, s, n]; a rounded   *)
(*    float carries its value in hundredths.                               *)
(*  - A string built by formatting is a sequence of such tokens, with the  *)
(*    newline a token of its own.                                          *)
(***************************************************************************)
EXTENDS Integers, Sequences, FiniteSets, TLC

----------------------------------------------------------------------------
(* Bounds of the model. *)

\* magnitudes the library hands back range over -1 .. MaxMag
MaxMag == 1
\* on_create is given data whose 'foo' entry is missing or in 1 .. MaxFoo
MaxFoo == 1
\* the clock read by datetime.now() ranges over 0 .. MaxClock
MaxClock == 1
\* the unit-level inputs of convert_to_percentage have at most MaxKeys keys
MaxKeys == 2
\* the generator state is followed over RngPeriod values
RngPeriod == 7

----------------------------------------------------------------------------
(* Scalars *)

Str(s) == [kind |-> "str", s |-> s, n |-> 0]
PyInt(i) == [kind |-> "int", s |-> "", n |-> i]
Dec(h) == [kind |-> "dec", s |-> "", n |-> h]
DecNaN == [kind |-> "nan", s |-> "", n |-> 0]
None == [kind |-> "None", s |-> "", n |-> 0]
NL == Str("\n")

Abs(v) == IF v < 0 THEN -v ELSE v

RECURSIVE GCD(_, _)
GCD(a, b) == IF b = 0 THEN a ELSE GCD(b, a % b)

\* the float a / b of two integers, a >= 0, b >= 0; 0 / 0 is NaN
Frac(a, b) ==
    IF b = 0 THEN [num |-> 0, den |-> 0]
    ELSE LET g == GCD(a, b) IN [num |-> a \div g, den |-> b \div g]
NaN == [num |-> 0, den |-> 0]
IsNaN(f) == f.den = 0

FracAdd(f, g) ==
    IF IsNaN(f) \/ IsNaN(g) THEN NaN
    ELSE Frac(f.num * g.den + g.num * f.den, f.den * g.den)

\* round(value, 2): to the nearest hundredth, ties to even; NaN stays NaN
round2(value) ==
    IF IsNaN(value) THEN DecNaN
    ELSE LET n == value.num * 100
             q == n \div value.den
             r == n % value.den
         IN  Dec(IF 2 * r > value.den \/ (2 * r = value.den /\ q % 2 = 1)
                 THEN q + 1 ELSE q)

----------------------------------------------------------------------------
(* Dicts *)

Keys(d) == {d[i][1] : i \in 1..Len(d)}
HasKey(d, k) == \E i \in 1..Len(d) : d[i][1] = k
Get(d, k) == d[CHOOSE i \in 1..Len(d) : d[i][1] = k][2]

RECURSIVE np_sum(_)
np_sum(xs) == IF xs = <<>> THEN 0 ELSE Head(xs) + np_sum(Tail(xs))

RECURSIVE SumFloats(_)
SumFloats(xs) == IF xs = <<>> THEN Frac(0, 1) ELSE FracAdd(Head(xs), SumFloats(Tail(xs)))

Values(d) == [i \in 1..Len(d) |-> d[i][2]]

----------------------------------------------------------------------------
(* The helpers nested in on_receive *)

\* a slip of convert_to_percentage: abs() is missing from the numerator
convert_keep_sign(value_dictionary) ==
    LET total_absolute_sum == np_sum([i \in 1..Len(value_dictionary) |-> Abs(value_dictionary[i][2])])
    IN  [i \in 1..Len(value_dictionary) |->
            <<value_dictionary[i][1],
              Frac(value_dictionary[i][2] * 100, total_absolute_sum)>>]

convert_to_percentage(value_dictionary) ==
    LET total_absolute_sum == np_sum([i \in 1..Len(value_dictionary) |-> Abs(value_dictionary[i][2])])
    IN  [i \in 1..Len(value_dictionary) |->
            <<value_dictionary[i][1],
              Frac(Abs(value_dictionary[i][2]) * 100, total_absolute_sum)>>]

RECURSIVE Concat(_)
Concat(ss) == IF ss = <<>> THEN <<>> ELSE Head(ss) \o Concat(Tail(ss))

\* a slip of the arrow formatter: an entry that rounds to 0.0 prints nothing
arrow_skip_zero(percentage_dict) ==
    Concat([i \in 1..Len(percentage_dict) |->
        IF round2(percentage_dict[i][2]) = Dec(0) THEN <<>>
        ELSE <<Str(percentage_dict[i][1][1]), Str("->"), Str(percentage_dict[i][1][2]),
               Str("="), round2(percentage_dict[i][2]), Str("%"), NL>>])

get_readable_percentages_arrow(percentage_dict) ==
    Concat([i \in 1..Len(percentage_dict) |->
        <<Str(percentage_dict[i][1][1]), Str("->"), Str(percentage_dict[i][1][2]),
          Str("="), round2(percentage_dict[i][2]), Str("%"), NL>>])

get_readable_percentages_iccs(percentage_dict) ==
    Concat([i \in 1..Len(percentage_dict) |->
        <<Str(percentage_dict[i][1]), Str("="), round2(percentage_dict[i][2]), Str("%"), NL>>])

----------------------------------------------------------------------------
(* The causal graph and the names on_receive fixes *)

\* a slip of edge_list: the last edge is written the wrong way round
edge_list_reversed ==
    << <<"altitude", "air_filter_pressure">>,
       <<"air_filter_pressure", "egt_turbo_inlet">>,
       <<"air_filter_pressure", "fuel_consumption">>,
       <<"engine_load", "engine_rpm">>,
       <<"engine_load", "fuel_consumption">>,
       <<"engine_rpm", "air_filter_pressure">>,
       <<"altitude", "engine_load">>,
       <<"ambient_temp", "coolant_temp">>,
       <<"ambient_temp", "egt_turbo_inlet">>,
       <<"fuel_consumption", "egt_turbo_inlet">>,
       <<"engine_load", "egt_turbo_inlet">>,
       <<"coolant_temp", "egt_turbo_inlet">>,
       <<"coolant_temp", "engine_rpm">> >>

edge_list ==
    << <<"altitude", "air_filter_pressure">>,
       <<"air_filter_pressure", "egt_turbo_inlet">>,
       <<"air_filter_pressure", "fuel_consumption">>,
       <<"engine_load", "engine_rpm">>,
       <<"engine_load", "fuel_consumption">>,
       <<"engine_rpm", "air_filter_pressure">>,
       <<"altitude", "engine_load">>,
       <<"ambient_temp", "coolant_temp">>,
       <<"ambient_temp", "egt_turbo_inlet">>,
       <<"fuel_consumption", "egt_turbo_inlet">>,
       <<"engine_load", "egt_turbo_inlet">>,
       <<"coolant_temp", "egt_turbo_inlet">>,
       <<"engine_rpm", "coolant_temp">> >>

treatments_list ==
    <<"altitude", "ambient_temp", "engine_load", "engine_rpm",
      "air_filter_pressure", "coolant_temp", "fuel_consumption">>

outcomes_list == <<"egt_turbo_inlet">>

target_node == "egt_turbo_inlet"

InSeq(xs, x) == \E i \in 1..Len(xs) : xs[i] = x
AddNew(xs, x) == IF InSeq(xs, x) THEN xs ELSE Append(xs, x)

EmptyGraph == [nodes |-> <<>>, edges |-> <<>>]

\* nx.DiGraph(edges): nodes in order of first appearance, each edge once
RECURSIVE add_edges_from(_, _)
add_edges_from(g, es) ==
    IF es = <<>> THEN g
    ELSE add_edges_from(
            [nodes |-> AddNew(AddNew(g.nodes, Head(es)[1]), Head(es)[2]),
             edges |-> AddNew(g.edges, Head(es))],
            Tail(es))

DiGraph(es) == add_edges_from(EmptyGraph, es)

EdgeSet(g) == {g.edges[i] : i \in 1..Len(g.edges)}
NodeSet(g) == {g.nodes[i] : i \in 1..Len(g.nodes)}

\* the edges into node t, in the order the graph holds them
InEdges(g, t) == SelectSeq(g.edges, LAMBDA e : e[2] = t)

\* the nodes from which t is reached by a directed path of at least one edge
RECURSIVE AncestorsFrom(_, _)
AncestorsFrom(g, S) ==
    LET more == S \cup {e[1] : e \in {x \in EdgeSet(g) : x[2] \in S}}
    IN  IF more = S THEN S ELSE AncestorsFrom(g, more)
Ancestors(g, t) == AncestorsFrom(g, {e[1] : e \in {x \in EdgeSet(g) : x[2] = t}})

----------------------------------------------------------------------------
(* State *)

VARIABLES
    foo_value, bar_value,       \* the module's two globals
    pc,                         \* "idle", or the statement on_receive is at
    df,                         \* on_receive's DataFrame
    causal_graph, scm,          \* the graph and the model object built on it
    arrow_strengths, arrow_strengths_pct,
    iccs, iccs_pct,
    strength_dict, iccs_dict, summary_lines,
    rng,                        \* the state of the library's random generator
    lib,                        \* what the library has answered so far
    files,                      \* the image files in the working directory
    create_ret, destroy_ret,    \* what on_create / on_destroy returned last
    status, result,             \* how the last on_receive ended, and its payload
    last_call,                  \* the entry point that ran last
    last_create,                \* the data the last on_create was given
    accesses,                   \* <<function, global, "read" | "write">> so far
    trace,                      \* the statements of the current on_receive
    failed,                     \* "no", or why a delegated step of this on_receive failed
    returned_from,              \* the percentages the last payload was built from
    history,                    \* per dataset, the <<timestamp, strength, iccs>> ever returned
    unit_pc, unit_arg, unit_ret \* a direct call of convert_to_percentage

globals == <<foo_value, bar_value>>
frame == <<df, causal_graph, scm, arrow_strengths, arrow_strengths_pct, iccs, iccs_pct,
           strength_dict, iccs_dict, summary_lines>>
world == <<rng, lib, files>>
host == <<create_ret, destroy_ret, last_create, accesses>>
outcome == <<status, result, returned_from, history>>
unit == <<unit_pc, unit_arg, unit_ret>>
vars == <<globals, pc, frame, world, host, outcome, last_call, trace, failed, unit>>

----------------------------------------------------------------------------
(* Inputs *)

AllNodes == NodeSet(DiGraph(edge_list))

\* the datasets on_receive is given: one with every column, one without a
\* treatment column, one without the outcome column
Datasets ==
    { [id |-> "full", columns |-> AllNodes],
      [id |-> "no_treatment", columns |-> AllNodes \ {"altitude"}],
      [id |-> "no_outcome", columns |-> AllNodes \ {"egt_turbo_inlet"}] }
DatasetIds == {d.id : d \in Datasets}
NoFrame == [id |-> "", columns |-> {}]

\* the data on_create is given: with or without a 'foo' entry
CreateData ==
    {[has_foo |-> FALSE, foo |-> 0]} \cup {[has_foo |-> TRUE, foo |-> f] : f \in 1..MaxFoo}
NeverCreated == [called |-> FALSE, has_foo |-> FALSE, foo |-> 0]

Mags == -1..MaxMag
\* the attribution mappings the library may answer with, over the given keys
Attributions(keys) ==
    {[i \in 1..Len(keys) |-> <<keys[i], a>>] : a \in Mags}
    \cup {[i \in 1..Len(keys) |-> <<keys[i], IF i = 1 THEN a ELSE 1>>] : a \in Mags}

NoResult == [timestamp |-> -1, strength |-> <<>>, iccs |-> <<>>, summary |-> <<>>]
NoPayload == [final_foo |-> None, final_bar |-> None, made |-> FALSE]
NoSource == [arrow_strengths_pct |-> <<>>, iccs_pct |-> <<>>]

----------------------------------------------------------------------------
(* Initial state: the module has been imported, nothing has been called *)

InitProgram ==
    /\ foo_value = None
    /\ bar_value = None
    /\ pc = "idle"
    /\ df = NoFrame
    /\ causal_graph = EmptyGraph
    /\ scm = "none"
    /\ arrow_strengths = <<>>
    /\ arrow_strengths_pct = <<>>
    /\ iccs = <<>>
    /\ iccs_pct = <<>>
    /\ strength_dict = <<>>
    /\ iccs_dict = <<>>
    /\ summary_lines = <<>>
    /\ rng \in 0..(RngPeriod - 1)
    /\ lib = <<>>
    /\ files = {}
    /\ create_ret = None
    /\ destroy_ret = NoPayload
    /\ status = "never"
    /\ result = NoResult
    /\ last_call = "none"
    /\ last_create = NeverCreated
    /\ accesses = {}
    /\ trace = <<>>
    /\ failed = "no"
    /\ returned_from = NoSource
    /\ history = [d \in DatasetIds |-> {}]

Init ==
    /\ InitProgram
    /\ unit_pc = "off"
    /\ unit_arg = <<>>
    /\ unit_ret = <<>>

----------------------------------------------------------------------------
(* on_create and on_destroy *)

\* a slip of get_foo: data.get("foo"), no default
get_foo_no_default(data) == IF data.has_foo THEN PyInt(data.foo) ELSE None

\* data.get("foo", 0)
get_foo(data) == IF data.has_foo THEN PyInt(data.foo) ELSE PyInt(0)

\* a slip of on_create: it also stores into bar_value
on_create_sets_bar(data) ==
    /\ pc = "idle"
    /\ foo_value' = get_foo(data)
    /\ bar_value' = get_foo(data)
    /\ create_ret' = foo_value'
    /\ last_create' = [called |-> TRUE, has_foo |-> data.has_foo, foo |-> data.foo]
    /\ accesses' = accesses \cup {<<"on_create", "foo_value", "write">>,
                                  <<"on_create", "bar_value", "write">>,
                                  <<"on_create", "foo_value", "read">>}
    /\ last_call' = "on_create"
    /\ UNCHANGED <<destroy_ret, pc, frame, world, outcome, trace, failed, unit>>

on_create(data) ==
    /\ pc = "idle"
    /\ foo_value' = get_foo(data)
    /\ create_ret' = foo_value'
    /\ last_create' = [called |-> TRUE, has_foo |-> data.has_foo, foo |-> data.foo]
    /\ accesses' = accesses \cup {<<"on_create", "foo_value", "write">>,
                                  <<"on_create", "foo_value", "read">>}
    /\ last_call' = "on_create"
    /\ UNCHANGED <<bar_value, destroy_ret, pc, frame, world, outcome, trace, failed, unit>>

on_destroy ==
    /\ pc = "idle"
    /\ destroy_ret' = [final_foo |-> foo_value, final_bar |-> bar_value, made |-> TRUE]
    /\ accesses' = accesses \cup {<<"on_destroy", "foo_value", "read">>,
                                  <<"on_destroy", "bar_value", "read">>}
    /\ last_call' = "on_destroy"
    /\ UNCHANGED <<globals, create_ret, last_create, pc, frame, world, outcome,
                   trace, failed, unit>>

----------------------------------------------------------------------------
(* on_receive, statement by statement *)

\* a slip of After: the graph is plotted before the strengths are normalized
After_plot_first(p) ==
    CASE p = "seed" -> "graph"
      [] p = "graph" -> "assign"
      [] p = "assign" -> "fit"
      [] p = "fit" -> "arrow"
      [] p = "arrow" -> "plot_graph"
      [] p = "plot_graph" -> "norm_arrow"
      [] p = "norm_arrow" -> "icc"
      [] p = "icc" -> "norm_icc"
      [] p = "norm_icc" -> "bar_plot"
      [] p = "bar_plot" -> "format"
      [] p = "format" -> "return"
      [] OTHER -> "idle"

\* the statement that follows statement p of on_receive
After(p) ==
    CASE p = "seed" -> "graph"
      [] p = "graph" -> "assign"
      [] p = "assign" -> "fit"
      [] p = "fit" -> "arrow"
      [] p = "arrow" -> "norm_arrow"
      [] p = "norm_arrow" -> "plot_graph"
      [] p = "plot_graph" -> "icc"
      [] p = "icc" -> "norm_icc"
      [] p = "norm_icc" -> "bar_plot"
      [] p = "bar_plot" -> "format"
      [] p = "format" -> "return"
      [] OTHER -> "idle"

\* a slip of set_random_seed: the call is missing, the generator runs on
seed_not_set(seed) == rng' = rng

\* gcm.util.general.set_random_seed(seed)
set_random_seed(seed) == rng' = seed

\* a library call that draws random numbers advances the generator
Draw == rng' = (rng + 1) % RngPeriod

ResetFrame ==
    /\ df' = NoFrame
    /\ causal_graph' = EmptyGraph
    /\ scm' = "none"
    /\ arrow_strengths' = <<>>
    /\ arrow_strengths_pct' = <<>>
    /\ iccs' = <<>>
    /\ iccs_pct' = <<>>
    /\ strength_dict' = <<>>
    /\ iccs_dict' = <<>>
    /\ summary_lines' = <<>>

\* a slip of Raise: the exception is caught and on_receive carries on
RaiseSwallowed ==
    /\ pc' = After(pc)
    /\ trace' = Append(trace, pc)
    /\ failed' = (IF pc = "assign" THEN "missing_column" ELSE "library_error")
    /\ UNCHANGED <<frame, status, last_call>>

\* an exception raised by a delegated call leaves on_receive: nothing catches it
Raise ==
    /\ pc' = "idle"
    /\ status' = "raised"
    /\ failed' = (IF pc = "assign" THEN "missing_column" ELSE "library_error")
    /\ trace' = <<>>
    /\ last_call' = "on_receive"
    /\ ResetFrame

Step == /\ pc' = After(pc)
        /\ trace' = Append(trace, pc)

\* lines 58, 136: the seed is set and the DataFrame built
Receive(data) ==
    /\ pc = "idle"
    /\ set_random_seed(0)
    /\ df' = data
    /\ pc' = After("seed")
    /\ trace' = <<"seed">>
    /\ status' = "running"
    /\ result' = NoResult
    /\ returned_from' = NoSource
    /\ failed' = "no"
    /\ last_call' = "on_receive"
    /\ UNCHANGED <<globals, causal_graph, scm, arrow_strengths, arrow_strengths_pct, iccs,
                   iccs_pct, strength_dict, iccs_dict, summary_lines, lib, files, host,
                   history, unit>>

\* lines 140-178: the graph, and the model object on it
BuildGraph ==
    /\ pc = "graph"
    /\ causal_graph' = DiGraph(edge_list)
    /\ scm' = "created"
    /\ Step
    /\ UNCHANGED <<globals, df, arrow_strengths, arrow_strengths_pct, iccs, iccs_pct,
                   strength_dict, iccs_dict, summary_lines, world, host, outcome,
                   last_call, failed, unit>>

\* line 181: a mechanism per node, chosen from the node's column of df
AssignMechanisms ==
    /\ pc = "assign"
    /\ IF NodeSet(causal_graph) \subseteq df.columns
       THEN /\ scm' = "assigned"
            /\ Draw
            /\ Step
            /\ UNCHANGED <<df, causal_graph, arrow_strengths, arrow_strengths_pct, iccs,
                           iccs_pct, strength_dict, iccs_dict, summary_lines, status,
                           last_call, failed>>
       ELSE /\ Raise
            /\ UNCHANGED rng
    /\ UNCHANGED <<globals, lib, files, host, result, returned_from, history, unit>>

\* line 185: the fit, which may fail
Fit ==
    /\ pc = "fit"
    /\ \/ /\ scm' = "fitted"
          /\ Draw
          /\ Step
          /\ UNCHANGED <<df, causal_graph, arrow_strengths, arrow_strengths_pct, iccs,
                         iccs_pct, strength_dict, iccs_dict, summary_lines, status,
                         last_call, failed>>
       \/ /\ Raise
          /\ UNCHANGED rng
    /\ UNCHANGED <<globals, lib, files, host, result, returned_from, history, unit>>

\* the library's answer to `call` on this dataset in this generator state:
\* any mapping over `keys`, but the same one whenever the three recur
Answer(call, keys, out) ==
    LET k == <<df.id, rng, call>>
    IN  /\ out \in Attributions(keys)
        /\ IF k \in DOMAIN lib THEN out = lib[k] /\ lib' = lib
           ELSE lib' = (k :> out) @@ lib

\* line 190: one strength per edge into the target
ArrowStrength ==
    /\ pc = "arrow"
    /\ \E out \in Attributions(InEdges(causal_graph, target_node)) :
          /\ Answer("arrow_strength", InEdges(causal_graph, target_node), out)
          /\ arrow_strengths' = out
    /\ Draw
    /\ Step
    /\ UNCHANGED <<globals, df, causal_graph, scm, arrow_strengths_pct, iccs, iccs_pct,
                   strength_dict, iccs_dict, summary_lines, files, host, outcome,
                   last_call, failed, unit>>

\* line 191
NormalizeArrow ==
    /\ pc = "norm_arrow"
    /\ arrow_strengths_pct' = convert_to_percentage(arrow_strengths)
    /\ Step
    /\ UNCHANGED <<globals, df, causal_graph, scm, arrow_strengths, iccs, iccs_pct,
                   strength_dict, iccs_dict, summary_lines, world, host, outcome,
                   last_call, failed, unit>>

\* lines 193-200: the graph plot and its file; plotting or saving may fail
PlotGraph ==
    /\ pc = "plot_graph"
    /\ \/ /\ files' = files \cup {"causal_graph.png"}
          /\ Step
          /\ UNCHANGED <<frame, status, last_call, failed>>
       \/ /\ Raise
          /\ UNCHANGED files
    /\ UNCHANGED <<globals, rng, lib, host, result, returned_from, history, unit>>

\* the nodes intrinsic_causal_influence attributes to: the target's ancestors
\* and the target, in the graph's node order
IccNodes(g) == SelectSeq(g.nodes, LAMBDA v : v \in Ancestors(g, target_node) \cup {target_node})

\* lines 203-207
IntrinsicInfluence ==
    /\ pc = "icc"
    /\ \E out \in Attributions(IccNodes(causal_graph)) :
          /\ Answer("intrinsic_causal_influence", IccNodes(causal_graph), out)
          /\ iccs' = out
    /\ Draw
    /\ Step
    /\ UNCHANGED <<globals, df, causal_graph, scm, arrow_strengths, arrow_strengths_pct,
                   iccs_pct, strength_dict, iccs_dict, summary_lines, files, host, outcome,
                   last_call, failed, unit>>

\* line 209
NormalizeIccs ==
    /\ pc = "norm_icc"
    /\ iccs_pct' = convert_to_percentage(iccs)
    /\ Step
    /\ UNCHANGED <<globals, df, causal_graph, scm, arrow_strengths, arrow_strengths_pct,
                   iccs, strength_dict, iccs_dict, summary_lines, world, host, outcome,
                   last_call, failed, unit>>

\* lines 212-217: the bar plot and its file; plotting or saving may fail
BarPlot ==
    /\ pc = "bar_plot"
    /\ \/ /\ files' = files \cup {"variance_attribution.png"}
          /\ Step
          /\ UNCHANGED <<frame, status, last_call, failed>>
       \/ /\ Raise
          /\ UNCHANGED files
    /\ UNCHANGED <<globals, rng, lib, host, result, returned_from, history, unit>>

\* a slip of found: `if value:` for `if value is not None:`, so 0.0 counts as missing
found_truthy(pct, treatment) ==
    /\ HasKey(pct, <<treatment, outcomes_list[1]>>)
    /\ Get(pct, <<treatment, outcomes_list[1]>>) # Frac(0, 1)

\* lines 232-234: arrow_strengths_pct.get((treatment, outcomes[0])) is not None
found(pct, treatment) == HasKey(pct, <<treatment, outcomes_list[1]>>)

Names(xs) == [i \in 1..Len(xs) |-> Str(xs[i])]

\* lines 230-240, the dict: a rounded value per treatment found, None otherwise
build_strength_dict(pct) ==
    [i \in 1..Len(treatments_list) |->
        <<treatments_list[i],
          IF found(pct, treatments_list[i])
          THEN round2(Get(pct, <<treatments_list[i], outcomes_list[1]>>))
          ELSE None>>]

\* lines 230-237, the lines: one per treatment found
arrow_summary_lines(pct) ==
    LET hit == SelectSeq(treatments_list, LAMBDA t : found(pct, t))
    IN  [i \in 1..Len(hit) |->
            <<Str(hit[i]), Str("->"), Str(outcomes_list[1]), Str("="),
              round2(Get(pct, <<hit[i], outcomes_list[1]>>)), Str("%")>>]

\* lines 243-245
build_iccs_dict(pct) == [i \in 1..Len(pct) |-> <<pct[i][1], round2(pct[i][2])>>]

\* lines 243-246
iccs_summary_lines(pct) ==
    [i \in 1..Len(pct) |-> <<Str(pct[i][1]), Str("="), round2(pct[i][2]), Str("%")>>]

ArrowHeader == <<Str("Arrow Strengths:"), NL, Str("----------------")>>
IccsHeader == <<NL, Str("ICCs:"), NL, Str("-----")>>

\* lines 225-246: the entries of summary_lines, each a string
build_summary_lines(arrow_pct, icc_pct) ==
    << <<Str("This is the result using dowhy.gcm on the data:"), NL>>,
       <<Str("- Treatments:")>> \o Names(treatments_list),
       <<Str("- Outcomes:")>> \o Names(outcomes_list) \o <<NL>>,
       ArrowHeader >>
    \o arrow_summary_lines(arrow_pct)
    \o <<IccsHeader>>
    \o iccs_summary_lines(icc_pct)

\* lines 219-246
Format ==
    /\ pc = "format"
    /\ strength_dict' = build_strength_dict(arrow_strengths_pct)
    /\ iccs_dict' = build_iccs_dict(iccs_pct)
    /\ summary_lines' = build_summary_lines(arrow_strengths_pct, iccs_pct)
    /\ Step
    /\ UNCHANGED <<globals, df, causal_graph, scm, arrow_strengths, arrow_strengths_pct,
                   iccs, iccs_pct, world, host, outcome, last_call, failed, unit>>

\* json.dumps of a dict of rounded floats and None: None is written null
json_value(v) ==
    CASE v.kind = "None" -> Str("null")
      [] v.kind = "nan" -> Str("NaN")
      [] OTHER -> v
json_dumps(d) == [i \in 1..Len(d) |-> [key |-> d[i][1], value |-> json_value(d[i][2])]]

\* sep.join(lines)
RECURSIVE join(_, _)
join(sep, lines) ==
    IF lines = <<>> THEN <<>>
    ELSE IF Len(lines) = 1 THEN Head(lines)
    ELSE Head(lines) \o <<sep>> \o join(sep, Tail(lines))

\* lines 249-258: the payload, stamped with the clock, goes back to the host
Return ==
    /\ pc = "return"
    /\ \E now \in 0..MaxClock :
          result' = [timestamp |-> now,
                     strength |-> json_dumps(strength_dict),
                     iccs |-> json_dumps(iccs_dict),
                     summary |-> join(NL, summary_lines)]
    /\ status' = "returned"
    /\ returned_from' = [arrow_strengths_pct |-> arrow_strengths_pct, iccs_pct |-> iccs_pct]
    /\ history' = [history EXCEPT ![df.id] = @ \cup {<<result'.timestamp, result'.strength, result'.iccs>>}]
    /\ Step
    /\ ResetFrame
    /\ UNCHANGED <<globals, world, host, last_call, failed, unit>>

on_receive ==
    \/ \E data \in Datasets : Receive(data)
    \/ BuildGraph
    \/ AssignMechanisms
    \/ Fit
    \/ ArrowStrength
    \/ NormalizeArrow
    \/ PlotGraph
    \/ IntrinsicInfluence
    \/ NormalizeIccs
    \/ BarPlot
    \/ Format
    \/ Return

Next ==
    \/ \E data \in CreateData : on_create(data)
    \/ on_receive
    \/ on_destroy

Spec == Init /\ [][Next]_vars

----------------------------------------------------------------------------
(* convert_to_percentage called on its own, on any small mapping *)

UnitKeys == {"k1", "k2", "k3", "k4"}
UnitMags == (-1 - MaxMag)..(MaxMag + 1)
UnitInputs ==
    UNION {{d \in [1..n -> UnitKeys \X UnitMags] :
                \A i, j \in 1..n : i # j => d[i][1] # d[j][1]} : n \in 0..MaxKeys}

InitPure ==
    /\ InitProgram
    /\ rng = 0
    /\ unit_pc = "ready"
    /\ unit_arg \in UnitInputs
    /\ unit_ret = <<>>

CallConvert ==
    /\ unit_pc = "ready"
    /\ unit_ret' = convert_to_percentage(unit_arg)
    /\ unit_pc' = "done"
    /\ UNCHANGED <<globals, pc, frame, world, host, outcome, last_call, trace, failed,
                   unit_arg>>

NextPure == CallConvert

SpecPure == InitPure /\ [][NextPure]_vars

----------------------------------------------------------------------------
(* Reading a formatted text back *)

\* the number of newlines in a text
LineBreaks(text) == Cardinality({i \in 1..Len(text) : text[i] = NL})

\* the lines of a text: the stretches between newlines (text.split("\n")),
\* found by halving the text and joining the line cut at the middle
RECURSIVE SplitLines(_)
SplitLines(text) ==
    IF Len(text) = 0 THEN << <<>> >>
    ELSE IF Len(text) = 1 THEN (IF text[1] = NL THEN << <<>>, <<>> >> ELSE <<text>>)
    ELSE LET m == Len(text) \div 2
             L == SplitLines(SubSeq(text, 1, m))
             R == SplitLines(SubSeq(text, m + 1, Len(text)))
         IN  SubSeq(L, 1, Len(L) - 1) \o <<L[Len(L)] \o R[1]>> \o Tail(R)

FirstAt(lines, from, what) ==
    CHOOSE i \in from..Len(lines) :
        lines[i] = what /\ \A j \in from..(i - 1) : lines[j] # what

\* the lines of the summary between the arrow-strength underline and the blank
\* line that ends the section
ArrowSection(summary) ==
    LET lines == SplitLines(summary)
        a == FirstAt(lines, 1, <<Str("----------------")>>)
        b == FirstAt(lines, a + 1, <<>>)
    IN  SubSeq(lines, a + 1, b - 1)

\* the lines of the summary after the ICC underline
IccSection(summary) ==
    LET lines == SplitLines(summary)
        c == FirstAt(lines, 1, <<Str("-----")>>)
    IN  SubSeq(lines, c + 1, Len(lines))

----------------------------------------------------------------------------
(* C1 *)

\* C1: for every non-empty mapping given to convert_to_percentage, all-zero
\* and mixed-sign mappings included, the percentages returned sum to 100.
C1_SumIs100 ==
    (unit_pc = "done" /\ unit_arg # <<>>) => SumFloats(Values(unit_ret)) = Frac(100, 1)

----------------------------------------------------------------------------
(* C2 *)

\* C2: convert_to_percentage returns a mapping with the keys of its input (in
\* the input's order); the value at each key is |input value| / (sum of the
\* |values|) * 100, which is NaN when that sum is 0; the input is left as it was.
C2_SameKeysAbsShare ==
    [][ (unit_pc = "ready" /\ unit_pc' = "done") =>
          LET total == np_sum([i \in 1..Len(unit_arg) |-> Abs(unit_arg[i][2])])
          IN  /\ unit_arg' = unit_arg
              /\ Keys(unit_ret') = Keys(unit_arg)
              /\ Len(unit_ret') = Len(unit_arg)
              /\ \A i \in 1..Len(unit_arg) :
                    /\ unit_ret'[i][1] = unit_arg[i][1]
                    /\ IF total = 0 THEN IsNaN(unit_ret'[i][2])
                       ELSE /\ unit_ret'[i][2].den > 0
                            /\ unit_ret'[i][2].num * total
                                 = Abs(unit_arg[i][2]) * 100 * unit_ret'[i][2].den ]_vars

C2_Witness ==
    /\ unit_pc = "done"
    /\ Len(unit_ret) = 2
    /\ unit_arg[1][2] < 0
    /\ unit_arg[2][2] > 1
    /\ unit_ret[1][2] # unit_ret[2][2]

----------------------------------------------------------------------------
(* C3 *)

\* a text of newline-terminated lines, as many as the mapping has entries
OneLineEach(text, mapping) ==
    /\ LineBreaks(text) = Len(mapping)
    /\ text # <<>> => text[Len(text)] = NL

\* C3: each formatter writes one line per entry of the percentage mapping it is
\* given (the mappings on_receive computes, and their leading parts), and the
\* arrow-strength and ICC sections of a returned summary hold one line per
\* entry of arrow_strengths_pct and of iccs_pct.
C3_OneLinePerEntry ==
    /\ \A n \in 0..Len(arrow_strengths_pct) :
          OneLineEach(get_readable_percentages_arrow(SubSeq(arrow_strengths_pct, 1, n)),
                      SubSeq(arrow_strengths_pct, 1, n))
    /\ \A n \in 0..Len(iccs_pct) :
          OneLineEach(get_readable_percentages_iccs(SubSeq(iccs_pct, 1, n)),
                      SubSeq(iccs_pct, 1, n))
    /\ status = "returned" =>
          /\ Len(ArrowSection(result.summary)) = Len(returned_from.arrow_strengths_pct)
          /\ Len(IccSection(result.summary)) = Len(returned_from.iccs_pct)

C3_Witness ==
    /\ status = "returned"
    /\ Len(returned_from.arrow_strengths_pct) > 1
    /\ Len(returned_from.iccs_pct) > Len(returned_from.arrow_strengths_pct)
    /\ \E i \in 1..Len(returned_from.arrow_strengths_pct) :
          returned_from.arrow_strengths_pct[i][2] = Frac(0, 1)
    /\ Len(ArrowSection(result.summary)) > 1

----------------------------------------------------------------------------
(* C4 *)

\* C4: all invocations of on_receive on one dataset return the same 'strength'
\* and 'iccs'; the generator is at its seeded state when the first library call
\* of an invocation is made, whatever ran before.
C4_SameDataSamePercentages ==
    /\ \A d \in DatasetIds : \A x, y \in history[d] : x[2] = y[2] /\ x[3] = y[3]
    /\ pc \in {"graph", "assign"} => rng = 0

C4_Witness ==
    /\ \E x, y \in history["full"] : x[1] # y[1]
    /\ last_create.called
    /\ status = "returned"

----------------------------------------------------------------------------
(* C5 *)

\* C5: an invocation of on_receive in which a delegated step failed (a column
\* of the graph missing from the dataset, a failed fit, a failed plot) raises
\* and hands back no payload; a dataset without a treatment or outcome column
\* never yields a payload.
C5_NoPayloadOnFailure ==
    /\ status = "returned" => failed = "no"
    /\ failed # "no" => (status = "raised" /\ pc = "idle")
    /\ status = "raised" => (result = NoResult /\ returned_from = NoSource /\ failed # "no")
    /\ \A d \in Datasets : ~(AllNodes \subseteq d.columns) => history[d.id] = {}
    /\ pc \notin {"idle", "graph", "assign"} => AllNodes \subseteq df.columns

C5_Witness ==
    /\ status = "raised"
    /\ failed = "missing_column"
    /\ result = NoResult
    /\ history["full"] # {}

----------------------------------------------------------------------------
(* C6 *)

AllowedAccesses ==
    { <<"on_create", "foo_value", "write">>, <<"on_create", "foo_value", "read">>,
      <<"on_destroy", "foo_value", "read">>, <<"on_destroy", "bar_value", "read">> }

----------------------------------------------------------------------------
(* C7 *)

\* the stage of the pipeline a statement belongs to, in the order claimed:
\* graph, fit and estimate, normalize, format, plot, return
Stage(p) ==
    CASE p = "seed" -> 0
      [] p = "graph" -> 1
      [] p \in {"assign", "fit", "arrow", "icc"} -> 2
      [] p \in {"norm_arrow", "norm_icc"} -> 3
      [] p = "format" -> 4
      [] p \in {"plot_graph", "bar_plot"} -> 5
      [] OTHER -> 6

Before(a, b) ==
    \A j \in 1..Len(trace) :
        trace[j] = b => \E i \in 1..(j - 1) : trace[i] = a

\* C7 as claimed: the statements of an invocation run stage by stage, graph,
\* fit and estimate, normalize, format, plot, return; no image file is written
\* before both mappings are normalized and formatted.
C7_PlotsAfterFormat ==
    /\ \A i, j \in 1..Len(trace) : i < j => Stage(trace[i]) <= Stage(trace[j])
    /\ \A plot \in {"plot_graph", "bar_plot"} :
          Before("norm_arrow", plot) /\ Before("norm_icc", plot) /\ Before("format", plot)

ActualOrder ==
    <<"seed", "graph", "assign", "fit", "arrow", "norm_arrow", "plot_graph",
      "icc", "norm_icc", "bar_plot", "format", "return">>

\* C7 as amended: the statements of an invocation run in this order: seed,
\* graph, assign, fit, arrow strengths, their normalization, the graph plot
\* file, ICCs, their normalization, the bar plot file, formatting, return.
\* Each file is written after the mapping it shows is normalized, and both
\* before formatting.
C7_PlotsInterleaved ==
    /\ Len(trace) <= Len(ActualOrder)
    /\ trace = SubSeq(ActualOrder, 1, Len(trace))
    /\ Before("norm_arrow", "plot_graph")
    /\ Before("norm_icc", "bar_plot")
    /\ Before("plot_graph", "format") /\ Before("bar_plot", "format")
    /\ Before("format", "return")
    /\ status = "returned" => trace = ActualOrder

C7_Witness ==
    /\ status = "returned"
    /\ trace = ActualOrder
    /\ files = {"causal_graph.png", "variance_attribution.png"}

----------------------------------------------------------------------------
(* C8 *)

\* C8: a returned 'strength' has one entry per treatment, in the order of the
\* treatments, and no other; an entry is null exactly when the normalized arrow
\* strengths hold no (treatment, 'egt_turbo_inlet') pair; the summary has an
\* arrow-strength line for a treatment exactly when its entry is not null.
C8_StrengthPerTreatment ==
    status = "returned" =>
        LET section == ArrowSection(result.summary)
            named == {<<section[k][1], section[k][2]>> : k \in 1..Len(section)}
        IN  /\ Len(result.strength) = Len(treatments_list)
            /\ \A i \in 1..Len(treatments_list) :
                  /\ result.strength[i].key = treatments_list[i]
                  /\ (result.strength[i].value = Str("null"))
                       <=> ~HasKey(returned_from.arrow_strengths_pct,
                                   <<treatments_list[i], "egt_turbo_inlet">>)
                  /\ (result.strength[i].value # Str("null"))
                       <=> <<Str(treatments_list[i]), Str("->")>> \in named

C8_Witness ==
    /\ status = "returned"
    /\ \E i, j, k \in 1..Len(result.strength) :
          /\ result.strength[i].value = Str("null")
          /\ result.strength[j].value = Dec(0)
          /\ result.strength[k].value.kind = "dec"
          /\ result.strength[k].value.n > 0

----------------------------------------------------------------------------
(* C9 *)

ExpectedFoo ==
    IF ~last_create.called THEN None
    ELSE IF last_create.has_foo THEN PyInt(last_create.foo) ELSE PyInt(0)

\* C9: foo_value is always the 'foo' entry of the data given to the latest
\* on_create (0 if it had none, None if on_create never ran), whatever
\* on_receive and on_destroy calls came since; bar_value does not change; and
\* on_destroy returns exactly these values.
C9_FinalFoo ==
    /\ foo_value = ExpectedFoo
    /\ bar_value = None
    /\ last_call = "on_destroy" =>
          /\ destroy_ret.made
          /\ destroy_ret.final_foo = ExpectedFoo
          /\ destroy_ret.final_bar = bar_value
    /\ last_call = "on_create" => create_ret = ExpectedFoo

C9_Witness ==
    /\ last_call = "on_destroy"
    /\ last_create.called
    /\ ~last_create.has_foo
    /\ destroy_ret.final_foo = PyInt(0)
    /\ status = "returned"

----------------------------------------------------------------------------
(* C10 *)

ExpectedEdges ==
    { <<"altitude", "air_filter_pressure">>, <<"altitude", "engine_load">>,
      <<"air_filter_pressure", "egt_turbo_inlet">>, <<"air_filter_pressure", "fuel_consumption">>,
      <<"engine_load", "engine_rpm">>, <<"engine_load", "fuel_consumption">>,
      <<"engine_load", "egt_turbo_inlet">>,
      <<"engine_rpm", "air_filter_pressure">>, <<"engine_rpm", "coolant_temp">>,
      <<"ambient_temp", "coolant_temp">>, <<"ambient_temp", "egt_turbo_inlet">>,
      <<"fuel_consumption", "egt_turbo_inlet">>, <<"coolant_temp", "egt_turbo_inlet">> }

\* C10: from its construction to the end of the invocation the graph of every
\* on_receive is one fixed set of 13 directed edges over 8 nodes, without a
\* directed cycle, in which 'egt_turbo_inlet' has no outgoing edge and is
\* reached by a directed path from each of the seven treatments.
C10_FixedAcyclicGraph ==
    pc \notin {"idle", "graph"} =>
        /\ EdgeSet(causal_graph) = ExpectedEdges
        /\ Len(causal_graph.edges) = 13
        /\ Cardinality(EdgeSet(causal_graph)) = 13
        /\ Len(causal_graph.nodes) = 8
        /\ Cardinality(NodeSet(causal_graph)) = 8
        /\ \A v \in NodeSet(causal_graph) : v \notin Ancestors(causal_graph, v)
        /\ \A e \in EdgeSet(causal_graph) : e[1] # "egt_turbo_inlet"
        /\ Len(treatments_list) = 7
        /\ \A i \in 1..Len(treatments_list) :
              treatments_list[i] \in Ancestors(causal_graph, "egt_turbo_inlet")

C10_Witness ==
    /\ pc = "return"
    /\ scm = "fitted"
    /\ Len(causal_graph.edges) = 13
    /\ files = {"causal_graph.png", "variance_attribution.png"}

====
